---- MODULE Spec2Model ----
(***************************************************************************)
(* A model of src/main.py (MemN2N on the bAbI tasks): the corpus reader    *)
(* and encoder (get_lines, get_vocab, process_dataset), the construction   *)
(* of the network's shared parameters (Model.__init__,                     *)
(* MemoryNetworkLayer.__init__) and the training loop (Model.train,        *)
(* compute_f1, set_shared_variables, shuffle_sync, reset_zero).            *)
(*                                                                         *)
(* Python indices are kept 0-based as values (the entries of C and Q, the  *)
(* word indices of S); a TLA+ sequence holds element i at position i+1.    *)
(***************************************************************************)
EXTENDS Integers, Sequences, FiniteSets, TLC

\* Bound: total number of lines of the train and test files together.
MaxLines == 5

VARIABLES
    pc,             \* position in Model.__init__ / Model.train
    train_lines,    \* get_lines(train_file)
    test_lines,     \* get_lines(test_file)
    vocab,          \* set of words (get_vocab)
    word_to_idx,    \* word -> index (get_vocab)
    max_seqlen,
    max_sentlen,
    S_train,        \* rows emitted by process_dataset(train_lines)
    S_test,         \* rows emitted by process_dataset(test_lines)
    S,              \* np.concatenate([S_train, S_test])
    data,           \* self.data: [train |-> [C, Q, Y], test |-> [C, Q, Y]]
    args,           \* batch_size, num_hops, adj_weight_tying, n_epochs, shuffle_batch
    shared,         \* the theano shared variables of the embeddings: id -> value
    A_np,           \* the numpy array A sampled at line 178
    B,              \* l_B_embedding.W (id of a shared variable, 0 before it exists)
    mem_layers,     \* self.mem_layers: sequence of [A |-> id, C |-> id]
    W_pred,         \* l_pred.W (id, 0 before it exists)
    params,         \* get_all_params(l_pred, trainable=True), as a set of ids
    init_lr,        \* self.init_lr, a fraction [num, den]
    lr,             \* self.lr
    learning_rate,  \* the learning rate compiled into the updates of train_model
    epoch,
    minibatch_index,
    total_cost,     \* the summands of total_cost, one per train_model call
    c_shared,
    q_shared,
    a_shared,
    f1,             \* compute_f1's frame: [dataset, i, y_pred, y_true]
    orig            \* self.data as Model.__init__ left it (history, for the claims)

dataVars == <<train_lines, test_lines, vocab, word_to_idx, max_seqlen,
              max_sentlen, S_train, S_test, S, data>>

netVars == <<args, shared, A_np, B, mem_layers, W_pred, params, init_lr, lr,
             learning_rate>>

loopVars == <<epoch, minibatch_index, total_cost, c_shared, q_shared, a_shared,
              f1, orig>>

vars == <<pc, dataVars, netVars, loopVars>>

----------------------------------------------------------------------------
(* Generic helpers *)

Range(f) == {f[i] : i \in DOMAIN f}

Max(a, b) == IF a > b THEN a ELSE b

RECURSIVE Flatten(_)
Flatten(ss) == IF ss = <<>> THEN <<>> ELSE Head(ss) \o Flatten(Tail(ss))

\* [x] * n of Python: the empty list when n <= 0.
Repeat(x, n) == [j \in 1..n |-> x]

\* seq[idx] of Python for a 0-based idx; a negative idx counts from the end.
PyIndex(seq, idx) == IF idx < 0 THEN seq[Len(seq) + idx + 1] ELSE seq[idx + 1]

\* range(a, b) of Python as an ascending sequence.
PyRange(a, b) == [j \in 1..(b - a) |-> a + j - 1]

\* list.index(x): the 0-based position of the first occurrence.
ListIndex(seq, x) == (CHOOSE j \in 1..Len(seq) :
                        seq[j] = x /\ \A m \in 1..(j - 1) : seq[m] # x) - 1

----------------------------------------------------------------------------
(* The input files.  A raw line is "<id> <text>" for a statement and       *)
(* "<id> <text>?\t<answer>\t<refs>" for a question.  A text is a sequence   *)
(* of blank-separated chunks; a chunk is given by the tokens it splits     *)
(* into ("a." splits into "a" and ".").  Ids count the lines of a story    *)
(* from 1, every story opens with a statement, and the supporting facts of *)
(* a question are ids of earlier statements of its story.                  *)

STexts == { << <<"a", ".">> >>, << <<"a">>, <<"a", ".">> >> }
QTexts == { << <<"a">> >> }
Answers == {"a", "c"}

RawStatements(k) == {[id |-> k, type |-> "s", text |-> t] : t \in STexts}

RawQuestions(k, stmts) ==
    {[id |-> k, type |-> "q", text |-> t, answer |-> a, refs |-> <<r>>] :
        t \in QTexts, a \in Answers, r \in stmts}

StoryStart(f) == CHOOSE i \in 1..Len(f) :
                    f[i].id = 1 /\ \A j \in (i + 1)..Len(f) : f[j].id # 1

StatementIds(f) == {f[j].id : j \in {m \in StoryStart(f)..Len(f) : f[m].type = "s"}}

Extensions(f) ==
    RawStatements(1) \cup RawStatements(f[Len(f)].id + 1)
                     \cup RawQuestions(f[Len(f)].id + 1, StatementIds(f))

RECURSIVE RawFiles(_)
RawFiles(n) ==
    IF n = 1 THEN {<<l>> : l \in RawStatements(1)}
    ELSE UNION {{Append(f, l) : l \in Extensions(f)} : f \in RawFiles(n - 1)}

----------------------------------------------------------------------------
(* get_lines *)

ParseLine(raw) ==
    IF raw.type = "s" THEN [type |-> "s", text |-> raw.text]
    ELSE [id |-> raw.id, type |-> "q", text |-> raw.text, answer |-> raw.answer,
          refs |-> [j \in 1..Len(raw.refs) |-> raw.refs[j] - 1]]

get_lines(file) == [i \in 1..Len(file) |-> ParseLine(file[i])]

\* nltk.word_tokenize on a text: the tokens of its chunks, in order.
word_tokenize(text) == Flatten(text)

----------------------------------------------------------------------------
(* get_vocab *)

VocabOf(lines) ==
    UNION {Range(word_tokenize(lines[i].text)) : i \in 1..Len(lines)}
    \cup {lines[i].answer : i \in {j \in 1..Len(lines) : lines[j].type = "q"}}

RECURSIVE MaxSentLen(_)
MaxSentLen(lines) ==
    IF lines = <<>> THEN 0
    ELSE Max(MaxSentLen(Tail(lines)), Len(word_tokenize(Head(lines).text)))

\* word_to_idx[w] = len(word_to_idx) + 1 while iterating over the set: the
\* iteration order of a set is not specified, so any numbering from 1 on.
FirstIdx == 1
WordNumberings(words) ==
    {f \in [words -> FirstIdx..(FirstIdx + Cardinality(words) - 1)] :
        \A v, w \in words : v # w => f[v] # f[w]}

\* [idx for idx in range(i-id, i) if lines[idx]['type'] == 's'], i 0-based,
\* id = line['id'] - 1.
ContextRange(i, id) == PyRange(i - id, i)

StatementsBefore(lines, i) ==
    LET IsS(idx) == PyIndex(lines, idx).type = "s"
    IN  SelectSeq(ContextRange(i, lines[i + 1].id - 1), IsS)

RECURSIVE MaxSeqLen(_, _)
MaxSeqLen(lines, n) ==
    IF n = 0 THEN 0
    ELSE Max(MaxSeqLen(lines, n - 1),
             IF lines[n].type = "q" THEN Len(StatementsBefore(lines, n - 1)) ELSE 0)

get_vocab ==
    /\ pc = "get_vocab"
    /\ LET lines == train_lines \o test_lines
       IN  /\ vocab' = VocabOf(lines)
           /\ word_to_idx' \in WordNumberings(VocabOf(lines))
           /\ max_seqlen' = MaxSeqLen(lines, Len(lines))
           /\ max_sentlen' = MaxSentLen(lines)
    /\ pc' = "process_train"
    /\ UNCHANGED <<train_lines, test_lines, S_train, S_test, S, data>>
    /\ UNCHANGED <<netVars, loopVars>>

----------------------------------------------------------------------------
(* process_dataset *)

\* Mutant: the row is left unpadded.
PadRowMissing(word_indices, sentlen) == word_indices

\* word_indices += [0] * (max_sentlen - len(word_indices))
PadRow(word_indices, sentlen) ==
    word_indices \o Repeat(0, sentlen - Len(word_indices))

EncodeLine(line, w2i, sentlen) ==
    LET words == word_tokenize(line.text)
    IN  PadRow([j \in 1..Len(words) |-> w2i[words[j]]], sentlen)

\* indices = [offset+idx for idx in range(i-id, i) if lines[idx]['type'] == 's']
ContextIndices(lines, i, offset) ==
    LET idxs == StatementsBefore(lines, i)
    IN  [j \in 1..Len(idxs) |-> offset + idxs[j]]

QuestionIndex(i, offset) == offset + i

\* line['refs'] = [indices.index(offset+i-id+ref) for ref in line['refs']]
RelinkRefs(lines, i, offset) ==
    LET line == lines[i + 1]
        indices == ContextIndices(lines, i, offset)
    IN  [j \in 1..Len(line.refs) |->
            ListIndex(indices, offset + i - (line.id - 1) + line.refs[j])]

QuestionPositions(lines) ==
    LET IsQ(i) == lines[i + 1].type = "q"
    IN  SelectSeq(PyRange(0, Len(lines)), IsQ)

\* The value process_dataset returns, and the lines as it leaves them.
process_dataset(lines, w2i, sentlen, offset) ==
    LET qs == QuestionPositions(lines)
    IN  [S |-> [i \in 1..Len(lines) |-> EncodeLine(lines[i], w2i, sentlen)],
         C |-> [n \in 1..Len(qs) |-> ContextIndices(lines, qs[n], offset)],
         Q |-> [n \in 1..Len(qs) |-> QuestionIndex(qs[n], offset)],
         Y |-> [n \in 1..Len(qs) |-> lines[qs[n] + 1].answer],
         lines |-> [i \in 1..Len(lines) |->
                      IF lines[i].type = "q"
                      THEN [lines[i] EXCEPT !.refs = RelinkRefs(lines, i - 1, offset)]
                      ELSE lines[i]]]

TrainOffset == 0

\* Mutant: the test file's indices are not shifted past the train rows.
TestOffsetMissing(s_train) == 0

TestOffset(s_train) == Len(s_train)

process_train ==
    /\ pc = "process_train"
    /\ LET r == process_dataset(train_lines, word_to_idx, max_sentlen, TrainOffset)
       IN  /\ S_train' = r.S
           /\ data' = [data EXCEPT !.train = [C |-> r.C, Q |-> r.Q, Y |-> r.Y]]
           /\ train_lines' = r.lines
    /\ pc' = "process_test"
    /\ UNCHANGED <<test_lines, vocab, word_to_idx, max_seqlen, max_sentlen, S_test, S>>
    /\ UNCHANGED <<netVars, loopVars>>

process_test ==
    /\ pc = "process_test"
    /\ LET r == process_dataset(test_lines, word_to_idx, max_sentlen, TestOffset(S_train))
       IN  /\ S_test' = r.S
           /\ data' = [data EXCEPT !.test = [C |-> r.C, Q |-> r.Q, Y |-> r.Y]]
           /\ test_lines' = r.lines
    /\ pc' = "concat_S"
    /\ UNCHANGED <<train_lines, vocab, word_to_idx, max_seqlen, max_sentlen, S_train, S>>
    /\ UNCHANGED <<netVars, loopVars>>

concat_S ==
    /\ pc = "concat_S"
    /\ S' = S_train \o S_test
    /\ pc' = "encoded"
    /\ UNCHANGED <<train_lines, test_lines, vocab, word_to_idx, max_seqlen,
                   max_sentlen, S_train, S_test, data>>
    /\ UNCHANGED <<netVars, loopVars>>

----------------------------------------------------------------------------
(* The corpus pipeline of Model.__init__ (lines 129-136) over every pair   *)
(* of well-formed files of at most MaxLines lines together.                *)

\* The network and the training loop before Model.__init__ reaches them.
NoArgs == [batch_size |-> 0, num_hops |-> 0, adj_weight_tying |-> FALSE,
           n_epochs |-> 0, shuffle_batch |-> FALSE]
NoRate == [num |-> 0, den |-> 1]
NoF1 == [dataset |-> "none", i |-> 0, y_pred |-> <<>>, y_true |-> <<>>]

NetNotBuilt ==
    /\ args = NoArgs
    /\ shared = <<>>
    /\ A_np = <<>>
    /\ B = 0
    /\ mem_layers = <<>>
    /\ W_pred = 0
    /\ params = {}
    /\ init_lr = NoRate
    /\ lr = NoRate
    /\ learning_rate = NoRate

LoopNotStarted ==
    /\ epoch = 0
    /\ minibatch_index = 0
    /\ total_cost = <<>>
    /\ c_shared = <<>>
    /\ q_shared = <<>>
    /\ a_shared = <<>>
    /\ f1 = NoF1

NoData == [train |-> [C |-> <<>>, Q |-> <<>>, Y |-> <<>>],
           test |-> [C |-> <<>>, Q |-> <<>>, Y |-> <<>>]]

InitData ==
    /\ pc = "get_vocab"
    /\ \E nt \in 1..(MaxLines - 1) : \E ne \in 1..(MaxLines - nt) :
         /\ train_lines \in {get_lines(f) : f \in RawFiles(nt)}
         /\ test_lines \in {get_lines(f) : f \in RawFiles(ne)}
    /\ vocab = {}
    /\ word_to_idx = <<>>
    /\ max_seqlen = 0
    /\ max_sentlen = 0
    /\ S_train = <<>>
    /\ S_test = <<>>
    /\ S = <<>>
    /\ data = NoData
    /\ NetNotBuilt
    /\ LoopNotStarted
    /\ orig = NoData

NextData == get_vocab \/ process_train \/ process_test \/ concat_S


SpecData == InitData /\ [][NextData]_vars

----------------------------------------------------------------------------
(* Claims about the encoded corpus *)

AllLines == train_lines \o test_lines

TokensOf(line) == word_tokenize(line.text)

\* The rows of one file: one row per line, of length max_sentlen, holding
\* indices in 1..|vocab| for the line's tokens and then only zeros.
RowsEncode(lines, rows) ==
    /\ Len(rows) = Len(lines)
    /\ \A i \in 1..Len(lines) :
         /\ Len(rows[i]) = max_sentlen
         /\ \A j \in 1..Len(TokensOf(lines[i])) : rows[i][j] \in 1..Cardinality(vocab)
         /\ \A j \in (Len(TokensOf(lines[i])) + 1)..Len(rows[i]) : rows[i][j] = 0
         /\ \A j, m \in 1..Len(rows[i]) : (j < m /\ rows[i][j] = 0) => rows[i][m] = 0

\* Over both files: equal tokens have equal indices, distinct tokens distinct ones.
IndicesNameTokens(lines, rows) ==
    \A i, n \in 1..Len(lines) :
        \A j \in 1..Len(TokensOf(lines[i])) : \A m \in 1..Len(TokensOf(lines[n])) :
            (rows[i][j] = rows[n][m]) <=> (TokensOf(lines[i])[j] = TokensOf(lines[n])[m])

\* max_sentlen is the largest token count over the lines of both files.
SentlenIsMax ==
    /\ \A i \in 1..Len(AllLines) : Len(TokensOf(AllLines[i])) <= max_sentlen
    /\ \E i \in 1..Len(AllLines) : Len(TokensOf(AllLines[i])) = max_sentlen

\* C1: process_dataset emits, for every line of the train and test files,
\* exactly one row of S of length max_sentlen (the largest token count over
\* all lines): the line's tokens' indices in order, each in 1..|vocab|,
\* distinct tokens having distinct indices, followed only by zeros.
C1_RowsAreTokenIndicesThenZeros ==
    /\ pc \in {"process_test", "concat_S", "encoded"} =>
         /\ SentlenIsMax
         /\ RowsEncode(train_lines, S_train)
    /\ pc \in {"concat_S", "encoded"} =>
         /\ RowsEncode(test_lines, S_test)
         /\ IndicesNameTokens(AllLines, S_train \o S_test)
    /\ pc = "encoded" =>
         /\ RowsEncode(AllLines, S)
         /\ IndicesNameTokens(AllLines, S)

\* A corpus with a padded row, a full row, a repeated token and a test row.
C1_Witness ==
    /\ pc = "encoded"
    /\ Len(S_test) >= 1
    /\ \E i \in 1..Len(S_train) :
         /\ S_train[i][max_sentlen] = 0
         /\ S_train[i][1] # 0
    /\ \E i \in 1..Len(S) :
         /\ S[i][max_sentlen] # 0
         /\ S[i][1] = S[i][2]

\* The 0-based position in lines of the file's n-th question.
NthQuestion(lines, n) ==
    CHOOSE i \in 0..(Len(lines) - 1) :
        /\ lines[i + 1].type = "q"
        /\ Cardinality({j \in 1..i : lines[j].type = "q"}) = n - 1

NumQuestions(lines) == Cardinality({j \in 1..Len(lines) : lines[j].type = "q"})

\* S[idx] is the row of line idx of the concatenated files.
RowIsLine(idx) ==
    /\ idx \in 0..(Len(S) - 1)
    /\ \A j \in 1..Len(TokensOf(AllLines[idx + 1])) :
         S[idx + 1][j] = word_to_idx[TokensOf(AllLines[idx + 1])[j]]
    /\ \A j \in (Len(TokensOf(AllLines[idx + 1])) + 1)..Len(S[idx + 1]) :
         S[idx + 1][j] = 0

ContextAndQuestionOf(lines, d, offset) ==
    /\ Len(d.Q) = NumQuestions(lines)
    /\ Len(d.C) = NumQuestions(lines)
    /\ \A n \in 1..Len(d.Q) :
         LET i == NthQuestion(lines, n)
             k == lines[i + 1].id
         IN  /\ d.Q[n] = offset + i
             /\ Range(d.C[n]) =
                  {offset + j : j \in {m \in (i - (k - 1))..(i - 1) : lines[m + 1].type = "s"}}
             /\ \A a, b \in 1..Len(d.C[n]) : a < b => d.C[n][a] < d.C[n][b]
             /\ \A a \in 1..Len(d.C[n]) :
                  /\ d.C[n][a] < d.Q[n]
                  /\ AllLines[d.C[n][a] + 1].type = "s"
                  /\ RowIsLine(d.C[n][a])
                  /\ AllLines[d.C[n][a] + 1] = lines[d.C[n][a] - offset + 1]
             /\ RowIsLine(d.Q[n])
             /\ AllLines[d.Q[n] + 1] = lines[i + 1]

\* C4: for a question at position i with line id k, process_dataset records
\* as context exactly the indices offset+j of the statements j in
\* i-(k-1)..i-1, ascending, and offset+i as question index; every context
\* index is below the question index and, with offset 0 for train and
\* len(S_train) for test, each index addresses in S the row of that line.
C4_ContextIsTheStoryStatements ==
    pc = "encoded" =>
        /\ ContextAndQuestionOf(train_lines, data.train, 0)
        /\ ContextAndQuestionOf(test_lines, data.test, Len(S_train))

\* A test question with a context, after a train question whose context
\* leaves out an earlier question of its story.
C4_Witness ==
    /\ pc = "encoded"
    /\ \E n \in 1..Len(data.test.Q) : Len(data.test.C[n]) >= 1
    /\ \E n \in 1..Len(data.train.Q) :
         /\ Len(data.train.C[n]) >= 1
         /\ Len(data.train.C[n]) < data.train.Q[n]

----------------------------------------------------------------------------
(* The corpus the network is built and trained on: stories of the format   *)
(* above, nq questions in all.  Model.__init__ prints the first ten test   *)
(* questions (lines 137-139), so the test file holds at least ten.         *)

MinTestQuestions == 10

SLine(k, t) == [id |-> k, type |-> "s", text |-> t]
QLine(k, a, r) == [id |-> k, type |-> "q", text |-> << <<"a">> >>, answer |-> a, refs |-> <<r>>]

LongStory(a) == << SLine(1, << <<"a", ".">> >>), SLine(2, << <<"a">>, <<"a", ".">> >>),
                   QLine(3, a, 2) >>
PairStory(a) == << SLine(1, << <<"a", ".">> >>), QLine(2, a, 1) >>

RECURSIVE Stories(_)
Stories(nq) ==
    IF nq = 0 THEN <<>>
    ELSE Stories(nq - 1) \o (IF nq = 1 THEN LongStory("c")
                             ELSE PairStory(IF nq % 2 = 0 THEN "a" ELSE "c"))

\* Lines 129-136 on two files, with one of the numberings get_vocab may build.
Corpus(train_file, test_file) ==
    LET tl == get_lines(train_file)
        el == get_lines(test_file)
        w2i == CHOOSE f \in WordNumberings(VocabOf(tl \o el)) : TRUE
        sentlen == MaxSentLen(tl \o el)
        rt == process_dataset(tl, w2i, sentlen, TrainOffset)
        re == process_dataset(el, w2i, sentlen, TestOffset(rt.S))
    IN  [train_lines |-> rt.lines, test_lines |-> re.lines,
         vocab |-> VocabOf(tl \o el), word_to_idx |-> w2i,
         max_seqlen |-> MaxSeqLen(tl \o el, Len(tl \o el)), max_sentlen |-> sentlen,
         S_train |-> rt.S, S_test |-> re.S, S |-> rt.S \o re.S,
         data |-> [train |-> [C |-> rt.C, Q |-> rt.Q, Y |-> rt.Y],
                   test |-> [C |-> re.C, Q |-> re.Q, Y |-> re.Y]]]

\* lb.fit(list(vocab)); vocab = lb.classes_.tolist(): the words in sorted order.
WordOrder == <<".", "a", "c">>
SortedVocab(words) == LET In(w) == w \in words IN SelectSeq(WordOrder, In)

num_classes == Len(SortedVocab(vocab)) + 1

\* lr=0.01, the default of Model.__init__ and of --lr.
DefaultLr == [num |-> 1, den |-> 100]

----------------------------------------------------------------------------
(* The embedding matrices.  A value keeps row 0 (the padding index) apart  *)
(* from the rows of the words; an entry is 0 (all zeros) or 1.             *)

Entry == {0, 1}
Values == [pad : Entry, words : Entry]

NdArray(v) == [kind |-> "ndarray", value |-> v]
Initializer == [kind |-> "init"]
SharedVar(id) == [kind |-> "shared", id |-> id]

\* Layer.add_param -> lasagne.utils.create_param: a shared variable is used
\* as it is; a numpy array is wrapped in a new shared variable (theano.shared
\* copies it); an initializer is sampled into a new shared variable.
CreateParam(spec, store, sample) ==
    IF spec.kind = "shared" THEN [id |-> spec.id, store |-> store]
    ELSE [id |-> Len(store) + 1,
          store |-> Append(store, IF spec.kind = "ndarray" THEN spec.value ELSE sample)]

\* A, C = lasagne.init.Normal(std=0.1).sample(...), lasagne.init.Normal(std=0.1)
sample_A ==
    /\ pc = "sample_A"
    /\ A_np' \in Values
    /\ pc' = "build_B"
    /\ UNCHANGED <<dataVars, loopVars, args, shared, B, mem_layers, W_pred, params,
                   init_lr, lr, learning_rate>>

\* W = A if adj_weight_tying else lasagne.init.Normal(std=0.1)
QuestionEmbeddingSpec(adj, a_np) == IF adj THEN NdArray(a_np) ELSE Initializer

build_B ==
    /\ pc = "build_B"
    /\ \E sample \in Values :
         LET r == CreateParam(QuestionEmbeddingSpec(args.adj_weight_tying, A_np),
                              shared, sample)
         IN  /\ B' = r.id
             /\ shared' = r.store
    /\ pc' = "build_layer"
    /\ UNCHANGED <<dataVars, loopVars, args, A_np, mem_layers, W_pred, params,
                   init_lr, lr, learning_rate>>

\* Mutant: every later hop is built the RNN way, whatever adj_weight_tying says.
LayerSpecsUntied(layers, adj, a_np) ==
    IF layers = <<>> THEN [A |-> NdArray(a_np), C |-> Initializer]
    ELSE [A |-> SharedVar(layers[Len(layers)].A), C |-> SharedVar(layers[Len(layers)].C)]

\* The A and C handed to the next MemoryNetworkLayer (lines 187-193).
LayerSpecs(layers, adj, a_np) ==
    IF layers = <<>> THEN [A |-> NdArray(a_np), C |-> Initializer]
    ELSE IF adj THEN [A |-> SharedVar(layers[Len(layers)].C), C |-> Initializer]
    ELSE [A |-> SharedVar(layers[Len(layers)].A), C |-> SharedVar(layers[Len(layers)].C)]

\* MemoryNetworkLayer.__init__: the embedding A, then the embedding C.
build_layer ==
    /\ pc = "build_layer"
    /\ Len(mem_layers) < args.num_hops
    /\ \E sA, sC \in Values :
         LET specs == LayerSpecs(mem_layers, args.adj_weight_tying, A_np)
             rA == CreateParam(specs.A, shared, sA)
             rC == CreateParam(specs.C, rA.store, sC)
         IN  /\ mem_layers' = Append(mem_layers, [A |-> rA.id, C |-> rC.id])
             /\ shared' = rC.store
    /\ UNCHANGED <<pc, dataVars, loopVars, args, A_np, B, W_pred, params,
                   init_lr, lr, learning_rate>>

\* The W of l_pred (lines 195-198).
PredSpec(layers, adj) ==
    IF adj THEN SharedVar(layers[Len(layers)].C) ELSE Initializer

LayerParams(layers) == {layers[k].A : k \in 1..Len(layers)} \cup
                       {layers[k].C : k \in 1..Len(layers)}

\* l_pred, then the compilation of train_model: sgd(..., learning_rate=self.lr)
\* builds the updates with the number self.lr holds at that moment.  The
\* constructor then returns, and its local A is gone.
build_pred ==
    /\ pc = "build_layer"
    /\ Len(mem_layers) >= args.num_hops
    /\ \E sample \in Values :
         LET r == CreateParam(PredSpec(mem_layers, args.adj_weight_tying), shared, sample)
         IN  /\ W_pred' = r.id
             /\ shared' = r.store
             /\ params' = {B} \cup LayerParams(mem_layers) \cup {r.id}
    /\ learning_rate' = lr
    /\ A_np' = <<>>
    /\ pc' = "train"
    /\ UNCHANGED <<dataVars, loopVars, args, B, mem_layers, init_lr, lr>>

----------------------------------------------------------------------------
(* set_shared_variables, predict, reset_zero *)

\* Mutant: the batch starts one question late.
BatchIndicesShifted(index, bs) == PyRange(index * bs + 1, (index + 1) * bs + 1)

\* indices = range(index*self.batch_size, (index+1)*self.batch_size)
BatchIndices(index, bs) == PyRange(index * bs, (index + 1) * bs)

\* row = row[:self.max_seqlen]; c[i,:len(row)] = row, c being zeros
ContextRow(row, seqlen) ==
    [j \in 1..seqlen |-> IF j <= Len(row) THEN row[j] ELSE 0]

\* y[i, 1:num_classes] = lb.transform(answer), y being zeros
AnswerRow(y) ==
    <<0>> \o [j \in 1..Len(SortedVocab(vocab)) |->
                IF SortedVocab(vocab)[j] = y THEN 1 ELSE 0]

SharedBatch(dataset, index) ==
    LET indices == BatchIndices(index, args.batch_size)
    IN  [c |-> [i \in 1..Len(indices) |-> ContextRow(dataset.C[indices[i] + 1], max_seqlen)],
         q |-> [i \in 1..Len(indices) |-> dataset.Q[indices[i] + 1]],
         y |-> [i \in 1..Len(indices) |-> AnswerRow(dataset.Y[indices[i] + 1])]]

\* n_batches = len(dataset['Y']) // self.batch_size
NumBatches(dataset) == Len(dataset.Y) \div args.batch_size

\* The output of the compiled network on one row of the loaded batch: which
\* class it is depends on the weights; here it is named by the row it answers.
Pred(c, q) == [c |-> c, q |-> q]

\* The cost train_model returns for the loaded batch, named by the batch.
Cost(c, q, y) == [c |-> c, q |-> q, y |-> y]

\* set_zero of Model and of every layer: x[0,:] = 0 for B and each A and C.
ZeroedParams(b, layers) == {b} \cup LayerParams(layers)

SetZero(store, ids) ==
    [id \in DOMAIN store |-> IF id \in ids THEN [store[id] EXCEPT !.pad = 0]
                             ELSE store[id]]

----------------------------------------------------------------------------
(* Model.train *)

\* Mutant: the permutation is not applied to Y.
ShuffleUnsynced(dataset, p) ==
    [C |-> [j \in 1..Len(dataset.C) |-> dataset.C[p[j]]],
     Q |-> [j \in 1..Len(dataset.Q) |-> dataset.Q[p[j]]],
     Y |-> dataset.Y]

\* for k in ['C', 'Q', 'Y']: dataset[k] = dataset[k][p]
ShuffleSync(dataset, p) ==
    [C |-> [j \in 1..Len(dataset.C) |-> dataset.C[p[j]]],
     Q |-> [j \in 1..Len(dataset.Q) |-> dataset.Q[p[j]]],
     Y |-> [j \in 1..Len(dataset.Y) |-> dataset.Y[p[j]]]]

Halved(rate) == [num |-> rate.num, den |-> rate.den * 2]

\* epoch = 0; self.lr = self.init_lr
train_begin ==
    /\ pc = "train"
    /\ epoch' = 0
    /\ lr' = init_lr
    /\ pc' = "epoch"
    /\ UNCHANGED <<dataVars, args, shared, A_np, B, mem_layers, W_pred, params,
                   init_lr, learning_rate, minibatch_index, total_cost, c_shared,
                   q_shared, a_shared, f1, orig>>

\* while (epoch < n_epochs): epoch += 1; if epoch % 25 == 0: self.lr /= 2.0
epoch_head ==
    /\ pc = "epoch"
    /\ IF epoch < args.n_epochs
       THEN /\ epoch' = epoch + 1
            /\ lr' = IF (epoch + 1) % 25 = 0 THEN Halved(lr) ELSE lr
            /\ total_cost' = <<>>
            /\ minibatch_index' = 0
            /\ pc' = IF args.shuffle_batch THEN "shuffle_sync" ELSE "minibatch"
       ELSE /\ pc' = "done"
            /\ UNCHANGED <<epoch, lr, total_cost, minibatch_index>>
    /\ UNCHANGED <<dataVars, args, shared, A_np, B, mem_layers, W_pred, params,
                   init_lr, learning_rate, c_shared, q_shared, a_shared, f1, orig>>

\* self.shuffle_sync(self.data['train'])
shuffle_sync ==
    /\ pc = "shuffle_sync"
    /\ \E p \in Permutations(1..Len(data.train.Y)) :
         data' = [data EXCEPT !.train = ShuffleSync(data.train, p)]
    /\ pc' = "minibatch"
    /\ UNCHANGED <<train_lines, test_lines, vocab, word_to_idx, max_seqlen,
                   max_sentlen, S_train, S_test, S, netVars, loopVars>>

\* for minibatch_index in indices: self.set_shared_variables(...)
load_minibatch ==
    /\ pc = "minibatch"
    /\ minibatch_index < NumBatches(data.train)
    /\ LET b == SharedBatch(data.train, minibatch_index)
       IN  /\ c_shared' = b.c
           /\ q_shared' = b.q
           /\ a_shared' = b.y
    /\ pc' = "train_model"
    /\ UNCHANGED <<dataVars, netVars, epoch, minibatch_index, total_cost, f1, orig>>

\* total_cost += self.train_model(): one SGD step on every trainable
\* parameter; the gradient depends on the batch and on all the weights.
train_model ==
    /\ pc = "train_model"
    /\ shared' \in {f \in [DOMAIN shared -> Values] :
                      \A id \in DOMAIN shared : id \notin params => f[id] = shared[id]}
    /\ total_cost' = Append(total_cost, Cost(c_shared, q_shared, a_shared))
    /\ pc' = "reset_zero"
    /\ UNCHANGED <<dataVars, args, A_np, B, mem_layers, W_pred, params, init_lr, lr,
                   learning_rate, epoch, minibatch_index, c_shared, q_shared,
                   a_shared, f1, orig>>

\* self.reset_zero()
reset_zero ==
    /\ pc = "reset_zero"
    /\ shared' = SetZero(shared, ZeroedParams(B, mem_layers))
    /\ minibatch_index' = minibatch_index + 1
    /\ pc' = "minibatch"
    /\ UNCHANGED <<dataVars, args, A_np, B, mem_layers, W_pred, params, init_lr, lr,
                   learning_rate, epoch, total_cost, c_shared, q_shared, a_shared,
                   f1, orig>>

\* After the minibatches: total_cost / len(indices) is printed (a division by
\* zero when there is no full batch), then compute_f1(self.data['train']).
epoch_report ==
    /\ pc = "minibatch"
    /\ minibatch_index >= NumBatches(data.train)
    /\ IF NumBatches(data.train) = 0
       THEN /\ pc' = "ZeroDivisionError"
            /\ f1' = f1
       ELSE /\ pc' = "predict"
            /\ f1' = [dataset |-> "train", i |-> 0, y_pred |-> <<>>, y_true |-> <<>>]
    /\ UNCHANGED <<dataVars, netVars, epoch, minibatch_index, total_cost, c_shared,
                   q_shared, a_shared, orig>>

\* predict(dataset, i): self.set_shared_variables(dataset, index)
load_predict ==
    /\ pc = "predict"
    /\ f1.i < NumBatches(data[f1.dataset])
    /\ LET b == SharedBatch(data[f1.dataset], f1.i)
       IN  /\ c_shared' = b.c
           /\ q_shared' = b.q
           /\ a_shared' = b.y
    /\ pc' = "compute_pred"
    /\ UNCHANGED <<dataVars, netVars, epoch, minibatch_index, total_cost, f1, orig>>

\* return self.compute_pred(), appended to the predictions of compute_f1
compute_pred ==
    /\ pc = "compute_pred"
    /\ f1' = [f1 EXCEPT !.i = f1.i + 1,
                        !.y_pred = f1.y_pred \o
                            [i \in 1..Len(q_shared) |-> Pred(c_shared[i], q_shared[i])]]
    /\ pc' = "predict"
    /\ UNCHANGED <<dataVars, netVars, epoch, minibatch_index, total_cost, c_shared,
                   q_shared, a_shared, orig>>

\* y_true = [self.vocab.index(y) for y in dataset['Y'][:len(y_pred)]]
TrueAnswers(dataset, n) ==
    [j \in 1..n |-> ListIndex(SortedVocab(vocab), dataset.Y[j])]

\* The end of compute_f1 (np.concatenate raises on an empty list); after the
\* train set comes the test set, after the test set the next epoch.
f1_score ==
    /\ pc = "predict"
    /\ f1.i >= NumBatches(data[f1.dataset])
    /\ IF NumBatches(data[f1.dataset]) = 0
       THEN /\ pc' = "ValueError"
            /\ f1' = f1
       ELSE /\ pc' = IF f1.dataset = "train" THEN "f1_test" ELSE "epoch"
            /\ f1' = [f1 EXCEPT !.y_true = TrueAnswers(data[f1.dataset], Len(f1.y_pred))]
    /\ UNCHANGED <<dataVars, netVars, epoch, minibatch_index, total_cost, c_shared,
                   q_shared, a_shared, orig>>

\* test_f1 = self.compute_f1(self.data['test'])
f1_test ==
    /\ pc = "f1_test"
    /\ f1' = [dataset |-> "test", i |-> 0, y_pred |-> <<>>, y_true |-> <<>>]
    /\ pc' = "predict"
    /\ UNCHANGED <<dataVars, netVars, epoch, minibatch_index, total_cost, c_shared,
                   q_shared, a_shared, orig>>

----------------------------------------------------------------------------
(* Specifications of the network and of the training loop *)

\* Bounds.
BatchSize == 2
MaxHops == 2
NetEpochs == 2

\* n_epochs=100 of main()
MainEpochs == 100

InitModel(a, corpus) ==
    /\ pc = "sample_A"
    /\ train_lines = corpus.train_lines
    /\ test_lines = corpus.test_lines
    /\ vocab = corpus.vocab
    /\ word_to_idx = corpus.word_to_idx
    /\ max_seqlen = corpus.max_seqlen
    /\ max_sentlen = corpus.max_sentlen
    /\ S_train = corpus.S_train
    /\ S_test = corpus.S_test
    /\ S = corpus.S
    /\ data = corpus.data
    /\ orig = corpus.data
    /\ args = a
    /\ shared = <<>>
    /\ A_np = <<>>
    /\ B = 0
    /\ mem_layers = <<>>
    /\ W_pred = 0
    /\ params = {}
    /\ init_lr = DefaultLr
    /\ lr = DefaultLr
    /\ learning_rate = NoRate
    /\ LoopNotStarted

\* Every tying mode and hop count, two full batches a (short) epoch.
InitNet ==
    \E h \in 1..MaxHops, t \in BOOLEAN :
        InitModel([batch_size |-> BatchSize, num_hops |-> h, adj_weight_tying |-> t,
                   n_epochs |-> NetEpochs, shuffle_batch |-> FALSE],
                  Corpus(Stories(2 * BatchSize + 1), Stories(MinTestQuestions + 1)))

NextNet ==
    \/ sample_A \/ build_B \/ build_layer \/ build_pred
    \/ train_begin \/ epoch_head \/ load_minibatch \/ train_model \/ reset_zero
    \/ epoch_report \/ load_predict \/ compute_pred \/ f1_score \/ f1_test

SpecNet == InitNet /\ [][NextNet]_vars

\* main(): model.train(n_epochs=100, shuffle_batch=True), on one hop, with
\* one full batch and a question left over.
InitTrain ==
    InitModel([batch_size |-> BatchSize, num_hops |-> 1, adj_weight_tying |-> TRUE,
               n_epochs |-> MainEpochs, shuffle_batch |-> TRUE],
              Corpus(Stories(BatchSize + 1), Stories(MinTestQuestions + 1)))

NextTrain == NextNet \/ shuffle_sync

SpecTrain == InitTrain /\ [][NextTrain]_vars

----------------------------------------------------------------------------
(* Claims about the network's parameters *)

Built == W_pred # 0

\* C2: with adj_weight_tying, the A of hop k is the very parameter that is
\* the C of hop k-1 (k >= 2) and the output layer's weight is the C of the
\* last hop, so these pairs hold identical values after any training; the C
\* parameters of different hops are pairwise distinct parameters.
C2_AdjacentHopsShareParameters ==
    args.adj_weight_tying =>
        /\ \A k \in 2..Len(mem_layers) :
             /\ mem_layers[k].A = mem_layers[k - 1].C
             /\ shared[mem_layers[k].A] = shared[mem_layers[k - 1].C]
        /\ \A j, k \in 1..Len(mem_layers) :
             j # k => mem_layers[j].C # mem_layers[k].C
        /\ Built =>
             /\ Len(mem_layers) = args.num_hops
             /\ W_pred = mem_layers[Len(mem_layers)].C
             /\ shared[W_pred] = shared[mem_layers[Len(mem_layers)].C]

\* Two tied hops after training, their two C matrices holding different values.
C2_Witness ==
    /\ args.adj_weight_tying
    /\ Len(mem_layers) >= 2
    /\ pc = "done"
    /\ shared[mem_layers[1].C] # shared[mem_layers[2].C]
    /\ shared[mem_layers[2].A].words = 1

\* C3: with adj_weight_tying, the question embedding B and the first hop's A
\* are equal at construction and stay equal after any number of train_model
\* and reset_zero steps (a train_model step counts once its reset_zero ran).
C3_QuestionEmbeddingIsFirstA ==
    (args.adj_weight_tying /\ B # 0 /\ Len(mem_layers) >= 1 /\ pc # "reset_zero") =>
        shared[B] = shared[mem_layers[1].A]

\* C8: whenever train evaluates the network (a train_model step or a
\* compute_pred call), row 0 of B and of every hop's A and C is all zeros.
C8_PaddingRowZeroWhenEvaluated ==
    pc \in {"train_model", "compute_pred"} =>
        \A id \in ZeroedParams(B, mem_layers) : shared[id].pad = 0

\* The second half of C8, which the loop does keep: a train_model step is
\* followed by reset_zero before anything else runs.
ResetFollowsTrainModel == [][pc = "train_model" => pc' = "reset_zero"]_vars

----------------------------------------------------------------------------
(* Claims about the training loop *)

\* 2^n
RECURSIVE Pow2(_)
Pow2(n) == IF n = 0 THEN 1 ELSE 2 * Pow2(n - 1)

\* C5: the learning rate the SGD update of train_model applies during epoch
\* e (counted from 1) is init_lr / 2^floor(e/25).
C5_AppliedRateIsHalvedEvery25Epochs ==
    pc = "train_model" =>
        learning_rate.num * init_lr.den * Pow2(epoch \div 25)
            = init_lr.num * learning_rate.den

\* What self.lr holds during epoch e, which is the rate the claim describes.
LrAttributeIsHalved ==
    pc = "train_model" =>
        lr.num * init_lr.den * Pow2(epoch \div 25) = init_lr.num * lr.den

FullCount(dataset) == (Len(dataset.Y) \div args.batch_size) * args.batch_size

\* Prediction j was computed from question j of the dataset, in its order.
PredictionsInOrder(dataset, y_pred) ==
    \A j \in 1..Len(y_pred) :
        /\ j <= Len(dataset.Q)
        /\ y_pred[j].q = dataset.Q[j]
        /\ \A m \in 1..Len(dataset.C[j]) : y_pred[j].c[m] = dataset.C[j][m]

\* No question of the tail was loaded into any of the batches.
TailUnused(dataset, loaded) ==
    \A j \in (FullCount(dataset) + 1)..Len(dataset.Q) :
        \A m \in 1..Len(loaded) : loaded[m] # dataset.Q[j]

\* C6: compute_f1 obtains one prediction for each of the first
\* floor(N/batch_size)*batch_size questions, in dataset order, pairs
\* prediction j with the true answer Y[j] and evaluates none of the last
\* N mod batch_size questions; each epoch runs one train_model step on each
\* full batch of the train set and none on the tail.
C6_FullBatchesOnlyInOrder ==
    /\ f1.dataset # "none" =>
         LET d == data[f1.dataset]
         IN  /\ Len(f1.y_pred) = f1.i * args.batch_size
             /\ Len(f1.y_pred) <= FullCount(d)
             /\ PredictionsInOrder(d, f1.y_pred)
             /\ TailUnused(d, [m \in 1..Len(f1.y_pred) |-> f1.y_pred[m].q])
             /\ (pc \in {"f1_test", "epoch", "done"} \/ f1.y_true # <<>>) =>
                  /\ Len(f1.y_pred) = FullCount(d)
                  /\ Len(f1.y_true) = FullCount(d)
                  /\ \A j \in 1..Len(f1.y_true) :
                       SortedVocab(vocab)[f1.y_true[j] + 1] = d.Y[j]
    /\ pc \in {"minibatch", "train_model", "reset_zero", "predict", "compute_pred",
               "f1_test"} =>
         /\ Len(total_cost) = minibatch_index + (IF pc = "reset_zero" THEN 1 ELSE 0)
         /\ Len(total_cost) <= NumBatches(data.train)
         /\ pc \in {"predict", "compute_pred", "f1_test"} =>
              Len(total_cost) = NumBatches(data.train)
         /\ \A b \in 1..Len(total_cost) : \A r \in 1..args.batch_size :
              /\ Len(total_cost[b].q) = args.batch_size
              /\ total_cost[b].q[r] = data.train.Q[(b - 1) * args.batch_size + r]
              /\ total_cost[b].y[r] = AnswerRow(data.train.Y[(b - 1) * args.batch_size + r])
              /\ TailUnused(data.train, total_cost[b].q)

\* compute_f1 has scored the test set, five batches and a question left
\* over, after an epoch on the shuffled train set with its own tail.
C6_Witness ==
    /\ pc = "epoch"
    /\ epoch >= 1
    /\ f1.dataset = "test"
    /\ Len(f1.y_true) = FullCount(data.test)
    /\ Len(f1.y_true) < Len(data.test.Y)
    /\ Len(f1.y_true) > args.batch_size
    /\ Len(total_cost) >= 1
    /\ FullCount(data.train) < Len(data.train.Y)
    /\ data.train # orig.train

Triple(d, j) == <<d.C[j], d.Q[j], d.Y[j]>>

\* C7: with shuffle_batch, after any number of epochs the train arrays C, Q
\* and Y are the original ones under one common permutation, and the test
\* arrays are never reordered.
C7_ShuffleKeepsTriplesTogether ==
    /\ Len(data.train.C) = Len(orig.train.C)
    /\ Len(data.train.Q) = Len(orig.train.Q)
    /\ Len(data.train.Y) = Len(orig.train.Y)
    /\ \E p \in Permutations(1..Len(orig.train.Y)) :
         \A j \in 1..Len(orig.train.Y) : Triple(data.train, j) = Triple(orig.train, p[j])
    /\ data.test = orig.test

\* Several epochs in, the train set stands in another order than at the start.
C7_Witness ==
    /\ args.shuffle_batch
    /\ epoch >= 3
    /\ pc = "minibatch"
    /\ data.train.Q # orig.train.Q
    /\ data.train.Q[1] = orig.train.Q[Len(orig.train.Q)]

====
